---------------------------- MODULE Spec2Model ----------------------------
(***************************************************************************)
(* A state-machine model of pycine.py: the decoder of Vision Research      *)
(* .cine files (class Cine).  One behaviour is one construction            *)
(* Cine(filename, **kwargs): the stream and the keyword arguments are      *)
(* chosen in Init, and every action is one step of the single decode pass  *)
(* __init__ -> _read_cine -> _get_Setup -> _get_TaggedBlocks ->            *)
(* _get_Images.                                                            *)
(*                                                                         *)
(* The stream is modelled at byte level from the end of the Setup          *)
(* structure on (tagged blocks, frame-offset table, frame records): the    *)
(* decoder reads little-endian integers out of file.body at the cursor.    *)
(* The two fixed headers and the Setup structure are modelled by the       *)
(* tuples struct.unpack produces for them and by their byte lengths.       *)
(* Python 2 semantics are kept: read(n) returns at most n bytes (all the   *)
(* rest for n < 0), struct.unpack raises unless the byte count matches     *)
(* the format exactly, "/" on integers is floor division.                  *)
(***************************************************************************)
EXTENDS Integers, Sequences, FiniteSets, TLC

VARIABLES
    file,           \* the input stream (never changes during a decode)
    kwargs,         \* no_tagged_blocks, read_images, framelimits
    pc,             \* position of the decode pass
    pos,            \* cinefile's cursor (tell())
    err,            \* the exception that ended the decode, "" if none
    printed,        \* diagnostic lines printed (warnings)
    self,           \* attributes set on the Cine object so far
    readEnd,        \* end of the furthest byte returned by any read
    shortRead,      \* some read(n), n >= 0, returned fewer than n bytes
    setup_length,   \* _read_cine: the declared length of the Setup structure
    tag_start,      \* _get_TaggedBlocks: argument
    tagged_length,  \* _get_TaggedBlocks: accumulator
    blocks_dict,    \* _get_TaggedBlocks: result under construction
    tag_headers,    \* _get_TaggedBlocks: <<position, BlockSize, BlockType>> per header
    tagReadEnd,     \* end of the furthest byte returned to _get_TaggedBlocks
    pointer_array,  \* _get_Images: the frame-offset table
    framelims,      \* _get_Images: the range after defaulting
    frame,          \* _get_Images: loop index
    image_array,    \* _get_Images: frames decoded so far
    frameReads      \* _get_Images: bytes returned by the per-frame reads

vars == <<file, kwargs, pc, pos, err, printed, self, readEnd, shortRead, setup_length,
          tag_start, tagged_length, blocks_dict, tag_headers, tagReadEnd,
          pointer_array, framelims, frame, image_array, frameReads>>

tagVars == <<tag_start, tagged_length, blocks_dict, tag_headers, tagReadEnd>>
imgVars == <<pointer_array, framelims, frame, image_array, frameReads>>

---------------------------------------------------------------------------
(* Bounds of the model *)

\* longest sequence of tagged blocks written into a stream
MaxBlocks == 2
\* largest ImageCount of a stream
MaxFrames == 3

---------------------------------------------------------------------------
(* Program constants *)

header_length == 44
bitmapinfo_length == 40
deprecated_skip == 140
setup_initial_skip == 597
setup_zeros_length == 1212
\* struct.calcsize of the format string _get_Setup unpacks
setup_format_size == 4955
\* number of values that format yields
setup_tuple_len == 230
\* "4096s": the Description field
description_size == 4096
\* "header is always 8 bytes"
tag_header_size == 8

\* framelimits=None: no range given
None == <<>>

Min(a, b) == IF a < b THEN a ELSE b
Max(a, b) == IF a > b THEN a ELSE b

---------------------------------------------------------------------------
(* Byte-level helpers: struct's little-endian codes *)

\* Python's integers are unbounded and TLC's are 32-bit: an unpacked
\* value of 2^30 or more is represented by 2^30.  Every stream of the model
\* is far shorter, so as a size, a count or an offset such a value acts as
\* the exact one does: it lies beyond the end of the stream.
Huge == 1024 * 1024 * 1024

\* struct.unpack("<I"/"<H"/"<Q", b): little-endian unsigned integer
RECURSIVE LE(_)
LE(b) == IF b = <<>> THEN 0
         ELSE LET hi == LE(Tail(b))
              IN IF hi >= Huge \div 256 THEN Huge ELSE Head(b) + 256 * hi

\* struct.pack of an unsigned integer on n bytes (used to write the streams)
RECURSIVE Pack(_, _)
Pack(v, n) == IF n = 0 THEN <<>> ELSE <<v % 256>> \o Pack(v \div 256, n - 1)

Zeros(n) == [i \in 1..n |-> 0]

\* struct.unpack("<kH", b): k 16-bit samples
Unpack16(b) == [i \in 1..(Len(b) \div 2) |-> LE(SubSeq(b, 2 * i - 1, 2 * i))]

\* Python's s[lo:hi] on a sequence (0-based, negative indices from the end,
\* out-of-range bounds clipped)
PyClip(i, n) == IF i < 0 THEN Max(i + n, 0) ELSE Min(i, n)
PySlice(s, lo, hi) == SubSeq(s, PyClip(lo, Len(s)) + 1, PyClip(hi, Len(s)))

\* str.rstrip('\x00') of a field holding text followed by NUL padding up to
\* size bytes: cut after the last byte that is not NUL
FieldByte(text, i) == IF i <= Len(text) THEN text[i] ELSE 0
RStripNul(text, size) ==
    LET last == {i \in 1..size : FieldByte(text, i) # 0}
        n == IF last = {} THEN 0 ELSE CHOOSE i \in last : \A j \in last : j <= i
    IN [i \in 1..n |-> FieldByte(text, i)]

---------------------------------------------------------------------------
(* The stream: a record with the tuples struct.unpack yields for the two   *)
(* fixed headers (hdr, bmp), the Setup mark and declared length, the text  *)
(* of the Description field, the bytes from the end of the Setup structure *)
(* on (body), the length of the stream (len), and the description it was   *)
(* written from (src, which the decoder never reads).                      *)

\* first byte of file.body: the tagged blocks follow the Setup structure
BodyBase(f) == header_length + bitmapinfo_length + f.setup_length

\* bytes left from position p (seek past the end is allowed, read gives '')
Avail(p) == IF file.len > p THEN file.len - p ELSE 0

\* number of bytes cinefile.read(n) returns at cursor p
Got(p, n) == IF n < 0 THEN Avail(p) ELSE Min(n, Avail(p))

\* the bytes cinefile.read(n) returns at cursor p, p inside the body
ByteAt(p) == LET i == p - BodyBase(file) + 1
             IN IF i >= 1 /\ i <= Len(file.body) THEN file.body[i] ELSE 0
Read(p, n) == [i \in 1..Got(p, n) |-> ByteAt(p + i - 1)]

---------------------------------------------------------------------------
(* Writing a stream: the inverse of the layout the decoder reads.  A       *)
(* stream is described by a record c and serialised by MkFile.             *)

\* tuple element by its Python (0-based) index
At(t, k) == t[k + 1]

RECURSIVE Concat(_)
Concat(ss) == IF ss = <<>> THEN <<>> ELSE Head(ss) \o Concat(Tail(ss))

\* image dimensions and trigger time written into every stream
ImWidthW == 2
ImHeightW == 1
TrigFraction == 5
TrigSeconds == 100

\* the Time64 entry and the exposure entry recorded for frame i (1-based)
TimeEntry(i) == [fraction |-> TrigFraction + 3 * i, seconds |-> TrigSeconds + i]
ExpEntry(i) == 40 + i

TimePayload(n) ==
    Concat([i \in 1..n |-> Pack(TimeEntry(i).fraction, 4) \o Pack(TimeEntry(i).seconds, 4)])
ExpPayload(n) == Concat([i \in 1..n |-> Pack(ExpEntry(i), 4)])

\* a tagged block as written: 8-byte header (BlockSize, BlockType, Reserved)
\* and the payload bytes physically present
BlockBytes(b, more) ==
    Pack(b.size, 4) \o Pack(b.type, 2) \o Pack(more, 2) \o b.payload

TagBytes(blocks) ==
    Concat([k \in 1..Len(blocks) |->
               BlockBytes(blocks[k], IF k = Len(blocks) THEN 0 ELSE 1)])

\* the tagged blocks a stream of n frames may hold: well formed TimeOnly and
\* ExposureOnly blocks, blocks of the other listed types without and with
\* payload, a block of an unlisted type, a TimeOnly block declaring one entry
\* more than is present, an ExposureOnly block whose payload is one byte more
\* than a whole number of entries, and a block declaring less than a header
BlockKinds(n) ==
    { [type |-> 1002, size |-> 8 + 8 * n, payload |-> TimePayload(n)],
      [type |-> 1003, size |-> 8 + 4 * n, payload |-> ExpPayload(n)],
      [type |-> 1004, size |-> 8, payload |-> <<>>],
      [type |-> 1005, size |-> 12, payload |-> <<1, 2, 3, 4>>],
      [type |-> 1006, size |-> 8, payload |-> <<>>],
      [type |-> 9999, size |-> 12, payload |-> <<1, 2, 3, 4>>],
      [type |-> 1002, size |-> 8 + 8 * (n + 1), payload |-> TimePayload(n)],
      [type |-> 1003, size |-> 8 + 4 * n + 1, payload |-> ExpPayload(n) \o <<9>>],
      [type |-> 1002, size |-> 0, payload |-> <<>>] }

RECURSIVE SeqsUpTo(_, _)
SeqsUpTo(S, n) ==
    IF n = 0 THEN {<<>>}
    ELSE LET shorter == SeqsUpTo(S, n - 1)
         IN shorter \cup {Append(s, x) : s \in shorter, x \in S}

\* a frame record as written: AnnotationSize, annotation text, ImageSize,
\* pixels (frame i, bpp bytes per pixel, extra trailing bytes declared and present)
AnnLen(i) == i % 2
PixelValue(i, k) == 10 * i + k
FramePixels(i, bpp) ==
    Concat([k \in 1..(ImWidthW * ImHeightW) |-> Pack(PixelValue(i, k), bpp)])
FrameBytes(i, bpp, extra) ==
    Pack(8 + AnnLen(i), 4) \o [k \in 1..AnnLen(i) |-> 7]
        \o Pack(bpp * ImWidthW * ImHeightW + extra, 4)
        \o FramePixels(i, bpp) \o [k \in 1..extra |-> 3]

\* the samples the decoder should produce for frame i
FrameSamples(i) == [k \in 1..(ImWidthW * ImHeightW) |-> PixelValue(i, k)]

\* the orders in which n frame records can be stored
Perms(n) == {p \in [1..n -> 1..n] : \A i, j \in 1..n : i # j => p[i] # p[j]}

\* the frame region: records stored in the order c.phys, each preceded by
\* c.fgap unused bytes; only the last stored record carries c.extra bytes
SlotBytes(c, j) ==
    Zeros(c.fgap) \o FrameBytes(c.phys[j], c.bpp, IF j = c.n THEN c.extra ELSE 0)
SlotOf(c, i) == CHOOSE j \in 1..c.n : c.phys[j] = i
RECURSIVE SlotStart(_, _)
SlotStart(c, j) == IF j = 1 THEN 0 ELSE SlotStart(c, j - 1) + Len(SlotBytes(c, j - 1))

MkFile(c) ==
    LET tags == TagBytes(c.blocks) \o Zeros(c.gap)
        base == header_length + bitmapinfo_length + c.setup_length
        off == base + Len(tags)
        fstart == off + 8 * c.n
        table == Concat([i \in 1..c.n |->
                           Pack(fstart + SlotStart(c, SlotOf(c, i)) + c.fgap, 8)])
        frames == Concat([j \in 1..c.n |-> SlotBytes(c, j)])
        body == tags \o table \o frames
    IN [ hdr |-> <<c.magic, header_length, 0, 1, 0, c.n, 0, c.n,
                   header_length, header_length + bitmapinfo_length, off,
                   TrigFraction, TrigSeconds>>,
         bmp |-> <<bitmapinfo_length, ImWidthW, ImHeightW, 1, c.bits, 0,
                   c.bpp * ImWidthW * ImHeightW, 0, 0, 0, 0>>,
         mark |-> c.mark,
         setup_length |-> c.setup_length,
         description |-> c.description,
         body |-> body,
         src |-> c,
         len |-> IF c.cut < 0 THEN base + Len(body) ELSE Min(c.cut, base + Len(body)) ]

\* a well-formed stream of n frames stored in table order
Nominal(n) ==
    [ magic |-> "CI", mark |-> "ST", setup_length |-> 6904,
      description |-> <<72, 105>>, bits |-> 8, bpp |-> 1, extra |-> 0,
      blocks |-> <<>>, gap |-> 0, n |-> n, phys |-> [i \in 1..n |-> i],
      fgap |-> 0, cut |-> -1 ]

---------------------------------------------------------------------------
(* The streams and keyword arguments a decode is started on *)

Ranges(n) == {r \in (0..n) \X (0..n) : r[1] <= r[2]}

Kwargs(notags, images, lims, noattrs) ==
    [no_tagged_blocks |-> notags, read_images |-> images,
     framelimits |-> lims, no_attributes |-> noattrs]

TimeBlock(n) == [type |-> 1002, size |-> 8 + 8 * n, payload |-> TimePayload(n)]
ExpBlock(n) == [type |-> 1003, size |-> 8 + 4 * n, payload |-> ExpPayload(n)]

\* places where a stream is cut short of its headers or its Setup structure
FrontCuts == {0, 1, 2, 43, 44, 83, 84, 225, 227, 5775, 5776, 6987}

\* magic, Setup mark, declared Setup length and truncation of the front part
FrontStreams ==
    { [Nominal(1) EXCEPT !.magic = m, !.mark = k, !.setup_length = l, !.cut = c,
                         !.blocks = <<ExpBlock(1)>>] :
        m \in {"CI", "MZ"}, k \in {"ST", "TS"},
        l \in {6904, 6903, 6905, 1900}, c \in FrontCuts \cup {-1} }

\* other two-character values in the first two bytes
MagicStreams ==
    { [Nominal(1) EXCEPT !.magic = m] : m \in {"ci", "IC", "C ", "ST"} }

\* a declared Setup length so small that the read length is negative, in a
\* stream that ends where the fixed layout ends, and in a shorter one
ShortSetupStreams ==
    { [Nominal(0) EXCEPT !.setup_length = 1900, !.gap = g] : g \in {3792, 3000} }

\* Description fields: empty, plain, with NULs inside and at the end
DescStreams ==
    { [Nominal(1) EXCEPT !.description = d] :
        d \in {<<>>, <<72, 105>>, <<72, 0, 105, 0, 0>>} }

\* sequences of tagged blocks, followed by unused bytes before the table
TagStreams ==
    { [Nominal(2) EXCEPT !.blocks = b, !.gap = g] :
        b \in SeqsUpTo(BlockKinds(2), MaxBlocks), g \in {0, 3, 8} }

\* frame counts, storage orders, unused bytes between records, bit depths
\* declared and stored
ImageStreams(n) ==
    { [Nominal(n) EXCEPT !.phys = p, !.fgap = g, !.bits = d[1], !.bpp = d[2],
                         !.blocks = b] :
        p \in Perms(n), g \in {0, 4},
        d \in {<<8, 1>>, <<16, 2>>, <<24, 3>>, <<24, 2>>},
        b \in {<<>>, <<TimeBlock(n), ExpBlock(n)>>} }

\* streams cut anywhere after the Setup structure
TruncStreams ==
    { [Nominal(2) EXCEPT !.bits = d[1], !.bpp = d[2], !.extra = d[3], !.cut = c,
                         !.blocks = <<TimeBlock(2), ExpBlock(2)>>] :
        d \in {<<8, 1, 0>>, <<16, 2, 0>>, <<16, 2, 1>>},
        c \in 6988..7080 }

Inputs ==
    { <<MkFile(c), Kwargs(t, i, <<0, 1>>, FALSE)>> :
          c \in FrontStreams, t \in BOOLEAN, i \in BOOLEAN }
    \cup { <<MkFile(c), Kwargs(t, i, None, FALSE)>> :
          c \in ShortSetupStreams, t \in BOOLEAN, i \in BOOLEAN }
    \cup { <<MkFile(c), Kwargs(FALSE, TRUE, <<0, 1>>, a)>> :
          c \in DescStreams \cup MagicStreams, a \in BOOLEAN }
    \cup { <<MkFile(c), Kwargs(FALSE, TRUE, l, FALSE)>> :
          c \in TagStreams, l \in {None, <<0, 2>>, <<1, 2>>} }
    \cup UNION { { <<MkFile(c), Kwargs(FALSE, TRUE, l, FALSE)>> :
                     c \in ImageStreams(n), l \in {None} \cup Ranges(n) } :
                 n \in 0..MaxFrames }
    \cup { <<MkFile(c), Kwargs(FALSE, TRUE, None, FALSE)>> : c \in TruncStreams }

NoDict == <<>>

Init ==
    /\ \E in \in Inputs : file = in[1] /\ kwargs = in[2]
    /\ pc = "init"
    /\ pos = 0
    /\ err = ""
    /\ printed = {}
    /\ self = NoDict
    /\ readEnd = 0
    /\ shortRead = FALSE
    /\ setup_length = None
    /\ tag_start = 0
    /\ tagged_length = 0
    /\ blocks_dict = NoDict
    /\ tag_headers = <<>>
    /\ tagReadEnd = 0
    /\ pointer_array = <<>>
    /\ framelims = <<0, 0>>
    /\ frame = 0
    /\ image_array = <<>>
    /\ frameReads = 0

---------------------------------------------------------------------------
(* __init__ *)

FormatErrorMsg == "AssertionError: File is not standard .cine format or file is corrupt."

\* the check of the first two bytes, left out
IsCineUnchecked(filetype) == filetype # ""

\* the check of the first two bytes
IsCine(filetype) == filetype = "CI"

\* with open(filename) ... self._read_cine(cinefile, **kwargs)
Open ==
    /\ pc = "init"
    /\ LET got == Got(0, 2)
       IN /\ readEnd' = Max(readEnd, got)
          /\ shortRead' = (shortRead \/ got < 2)
          /\ IF got < 2
             THEN pc' = "failed" /\ err' = "struct.error" /\ pos' = got
             ELSE IF ~IsCine(At(file.hdr, 0))
             THEN pc' = "failed" /\ err' = FormatErrorMsg /\ pos' = 0
             ELSE pc' = "read_cine" /\ err' = err /\ pos' = 0
    /\ UNCHANGED <<file, kwargs, printed, self, setup_length, tagVars, imgVars>>

---------------------------------------------------------------------------
(* _read_cine: the two fixed headers *)

\* dictionary of values for the CineFileHeader structure
get_CineFileHeader(filetuple) ==
    [ Type |-> At(filetuple, 0), Headersize |-> At(filetuple, 1),
      Compression |-> At(filetuple, 2), Version |-> At(filetuple, 3),
      FirstMovieImage |-> At(filetuple, 4), TotalImageCount |-> At(filetuple, 5),
      FirstImageNo |-> At(filetuple, 6), ImageCount |-> At(filetuple, 7),
      OffImageHeader |-> At(filetuple, 8), OffSetup |-> At(filetuple, 9),
      OffImageOffsets |-> At(filetuple, 10),
      TriggerTime |-> <<At(filetuple, 11), At(filetuple, 12)>> ]

\* dictionary of values for the BitmapInfoHeader structure
get_BitmapInfoHeader(filetuple) ==
    [ biSize |-> At(filetuple, 0), biWidth |-> At(filetuple, 1),
      biHeight |-> At(filetuple, 2), biPlanes |-> At(filetuple, 3),
      biBitCount |-> At(filetuple, 4), biCompression |-> At(filetuple, 5),
      biSizeImage |-> At(filetuple, 6), biXPelsPerMeter |-> At(filetuple, 7),
      biYPelsPerMeter |-> At(filetuple, 8), biClrUsed |-> At(filetuple, 9),
      biClrImportant |-> At(filetuple, 10) ]

ReadHeaders ==
    /\ pc = "read_cine"
    /\ LET g1 == Got(0, header_length)
           g2 == Got(header_length, bitmapinfo_length)
       IN IF g1 < header_length
          THEN /\ pc' = "failed" /\ err' = "struct.error" /\ pos' = g1
               /\ shortRead' = TRUE /\ readEnd' = Max(readEnd, g1)
               /\ self' = self
          ELSE IF g2 < bitmapinfo_length
          THEN /\ pc' = "failed" /\ err' = "struct.error"
               /\ pos' = header_length + g2
               /\ shortRead' = TRUE /\ readEnd' = Max(readEnd, header_length + g2)
               /\ self' = self @@ ("CineFileHeader" :> get_CineFileHeader(file.hdr))
          ELSE /\ pc' = "setup" /\ err' = err
               /\ pos' = header_length + bitmapinfo_length
               /\ shortRead' = shortRead
               /\ readEnd' = Max(readEnd, header_length + bitmapinfo_length)
               /\ self' = self @@ ("CineFileHeader" :> get_CineFileHeader(file.hdr))
                               @@ ("BitmapInfoHeader" :> get_BitmapInfoHeader(file.bmp))
    /\ UNCHANGED <<file, kwargs, printed, setup_length, tagVars, imgVars>>

---------------------------------------------------------------------------
(* _read_cine, _get_Setup: the Setup structure *)

\* the tuple struct.unpack yields for the Setup bytes of the stream: the
\* streams written here hold ImWidth, ImHeight, Serial, FrameRate and the
\* Description field, and zero in every other field
SetupTuple(f) ==
    [k \in 0..(setup_tuple_len - 1) |->
        CASE k = 0 -> ImWidthW
          [] k = 1 -> ImHeightW
          [] k = 3 -> 1234
          [] k = 16 -> 1000
          [] k = 229 -> f.description
          [] OTHER -> 0]

\* dictionary of values for the Setup structure
get_Setup(filetuple) ==
    LET desc_string == RStripNul(filetuple[229], description_size)
    IN [ ImWidth |-> filetuple[0], ImHeight |-> filetuple[1],
         Serial |-> filetuple[3], FrameRate |-> filetuple[16],
         PostTrigger |-> filetuple[19], CameraVersion |-> filetuple[25],
         FirmwareVersion |-> filetuple[26], SoftwareVersion |-> filetuple[27],
         RealBPP |-> filetuple[51], CICalib |-> filetuple[206],
         CalibWidth |-> filetuple[207], CalibHeight |-> filetuple[208],
         CalibRate |-> filetuple[209], CalibExp |-> filetuple[210],
         CalibEDR |-> filetuple[211], CalibTemp |-> filetuple[212],
         Sensor |-> filetuple[221], ShutterNs |-> filetuple[222],
         EDRShutterNs |-> filetuple[223], FrameDelayNs |-> filetuple[224] ]

MarkWarning == "SETUP structure marker is incorrect."

\* number of bytes _read_cine asks for the Setup structure
setup_read_length(len) ==
    len - setup_initial_skip - setup_zeros_length - deprecated_skip

\* an unpack that takes the layout from the front of a longer buffer
SetupUnpacksPrefix(got) == got >= setup_format_size

\* struct.unpack(format_string, filestring) accepts the bytes read
SetupUnpacks(got) == got = setup_format_size

ReadSetup ==
    /\ pc = "setup"
    /\ LET markAt == header_length + bitmapinfo_length + deprecated_skip
           g1 == Got(markAt, 2)
           g2 == Got(markAt + 2, 2)
           new_setup_start_position ==
               header_length + bitmapinfo_length + deprecated_skip + setup_initial_skip
           n == setup_read_length(file.setup_length)
           g3 == Got(new_setup_start_position, n)
       IN IF g1 < 2
          THEN /\ pc' = "failed" /\ err' = "struct.error" /\ pos' = markAt + g1
               /\ shortRead' = TRUE /\ readEnd' = Max(readEnd, markAt + g1)
               /\ UNCHANGED <<printed, setup_length, self>>
          ELSE /\ printed' = IF file.mark # "ST" THEN printed \cup {MarkWarning}
                                                ELSE printed
               /\ IF g2 < 2
                  THEN /\ pc' = "failed" /\ err' = "struct.error"
                       /\ pos' = markAt + 2 + g2
                       /\ shortRead' = TRUE
                       /\ readEnd' = Max(readEnd, markAt + 2 + g2)
                       /\ UNCHANGED <<setup_length, self>>
                  ELSE /\ setup_length' = file.setup_length
                       /\ shortRead' = (shortRead \/ (n >= 0 /\ g3 < n))
                       /\ readEnd' = Max(readEnd, Max(markAt + 4,
                                         new_setup_start_position + g3))
                       /\ IF ~SetupUnpacks(g3)
                          THEN /\ pc' = "failed" /\ err' = "struct.error"
                               /\ pos' = new_setup_start_position + g3
                               /\ self' = self
                          ELSE /\ pc' = "tagged" /\ err' = err
                               /\ pos' = header_length + bitmapinfo_length
                                           + file.setup_length
                               /\ self' = self @@ ("Setup" :> get_Setup(SetupTuple(file)))
    /\ UNCHANGED <<file, kwargs, tagVars, imgVars>>

---------------------------------------------------------------------------
(* _get_TaggedBlocks *)

\* keys of tag_type_dict
tag_type_dict == {1002, 1003, 1004, 1005, 1006}

UnknownBlockMsg == "AssertionError: Unknown tagged block type"

\* "assert BlockType in tag_type_dict"
BlockTypeExists(BlockType) == BlockType \in tag_type_dict

\* the while condition of the scan
ScanContinues == tagged_length + tag_start <= self.CineFileHeader.OffImageOffsets - 1

\* dictionary update d[k] = v
Put(d, k, v) == [x \in DOMAIN d \cup {k} |-> IF x = k THEN v ELSE d[x]]

\* if no_tagged_blocks: ... else: tag_start = ...; _get_TaggedBlocks up to the
\* seek to tag_start
StartTaggedBlocks ==
    /\ pc = "tagged"
    /\ IF kwargs.no_tagged_blocks
       THEN /\ self' = self @@ ("TaggedBlocks" :> NoDict)
            /\ pc' = "images"
            /\ UNCHANGED <<pos, tagVars>>
       ELSE /\ tag_start' = setup_length + header_length + bitmapinfo_length
            /\ tagged_length' = 0
            /\ blocks_dict' = NoDict
            /\ tag_headers' = <<>>
            /\ pos' = setup_length + header_length + bitmapinfo_length
            /\ pc' = "tagloop"
            /\ UNCHANGED <<self, tagReadEnd>>
    /\ UNCHANGED <<file, kwargs, err, printed, readEnd, shortRead, setup_length, imgVars>>

\* the body of "if BlockType == 1002": at is the cursor after the header
TimeOnlyBlock(at, data_length) ==
    LET bytes_per_value == 8
        ntimes == data_length \div bytes_per_value
        need == bytes_per_value * ntimes
        got == Got(at, need)
        fraction(i) == LE(Read(at + bytes_per_value * (i - 1), 4))
        seconds(i) == LE(Read(at + bytes_per_value * (i - 1) + 4, 4))
        TimeOnly == [i \in 1..ntimes |-> <<fraction(i), seconds(i)>>]
        \* (seconds - trigger seconds) + (fraction - trigger fraction) / 2^32,
        \* kept as the pair of its two integer terms
        time_float == [i \in 1..ntimes |->
                         <<seconds(i) - self.CineFileHeader.TriggerTime[2],
                           fraction(i) - self.CineFileHeader.TriggerTime[1]>>]
        framelimits == kwargs.framelimits
    IN IF ntimes < 0
       THEN [err |-> "ValueError", pos |-> at, short |-> FALSE, dict |-> blocks_dict]
       ELSE IF got < need
       THEN [err |-> "struct.error", pos |-> at + got, short |-> TRUE,
             dict |-> blocks_dict]
       ELSE IF framelimits = None
       THEN [err |-> "TypeError", pos |-> at + need, short |-> FALSE,
             dict |-> blocks_dict]
       ELSE [err |-> "", pos |-> at + need, short |-> FALSE,
             dict |-> Put(Put(blocks_dict, "TimeOnly",
                              PySlice(TimeOnly, framelimits[1], framelimits[2])),
                          "time_float",
                          PySlice(time_float, framelimits[1], framelimits[2]))]

\* the body of "if BlockType == 1003"
ExposureOnlyBlock(at, data_length) ==
    LET bytes_per_value == 4
        nexp == data_length \div bytes_per_value
        need == bytes_per_value * nexp
        got == Got(at, need)
        fraction(i) == LE(Read(at + bytes_per_value * (i - 1), 4))
        ExposureOnly == [i \in 1..nexp |-> fraction(i)]
        \* fraction / 2^32, kept as its numerator
        exposure_float == [i \in 1..nexp |-> fraction(i)]
        framelimits == kwargs.framelimits
    IN IF nexp < 0
       THEN [err |-> "ValueError", pos |-> at, short |-> FALSE, dict |-> blocks_dict]
       ELSE IF got < need
       THEN [err |-> "struct.error", pos |-> at + got, short |-> TRUE,
             dict |-> blocks_dict]
       ELSE IF framelimits = None
       THEN [err |-> "TypeError", pos |-> at + need, short |-> FALSE,
             dict |-> blocks_dict]
       ELSE [err |-> "", pos |-> at + need, short |-> FALSE,
             dict |-> Put(Put(blocks_dict, "ExposureOnly",
                              PySlice(ExposureOnly, framelimits[1], framelimits[2])),
                          "exposure_float",
                          PySlice(exposure_float, framelimits[1], framelimits[2]))]

\* what follows the assert for a block of a listed type: the two "if"s
BlockBody(BlockType, at, data_length) ==
    IF BlockType = 1002 THEN TimeOnlyBlock(at, data_length)
    ELSE IF BlockType = 1003 THEN ExposureOnlyBlock(at, data_length)
    ELSE [err |-> "", pos |-> at, short |-> FALSE, dict |-> blocks_dict]

\* one iteration of the while loop
TagBlock ==
    /\ pc = "tagloop"
    /\ ScanContinues
    /\ LET got == Got(pos, tag_header_size)
           tag_header == Read(pos, tag_header_size)
           BlockSize == LE(SubSeq(tag_header, 1, 4))
           data_length == BlockSize - tag_header_size
           BlockType == LE(SubSeq(tag_header, 5, 6))
           body == BlockBody(BlockType, pos + tag_header_size, data_length)
       IN IF got < tag_header_size
          THEN /\ pc' = "failed" /\ err' = "struct.error" /\ pos' = pos + got
               /\ shortRead' = TRUE
               /\ readEnd' = Max(readEnd, pos + got)
               /\ tagReadEnd' = Max(tagReadEnd, pos + got)
               /\ UNCHANGED <<tagged_length, blocks_dict, tag_headers>>
          ELSE /\ tag_headers' = Append(tag_headers, <<pos, BlockSize, BlockType>>)
               /\ IF ~BlockTypeExists(BlockType)
                  THEN /\ pc' = "failed" /\ err' = UnknownBlockMsg
                       /\ pos' = pos + tag_header_size
                       /\ shortRead' = shortRead
                       /\ readEnd' = Max(readEnd, pos + tag_header_size)
                       /\ tagReadEnd' = Max(tagReadEnd, pos + tag_header_size)
                       /\ UNCHANGED <<tagged_length, blocks_dict>>
                  ELSE /\ pos' = body.pos
                       /\ shortRead' = (shortRead \/ body.short)
                       /\ readEnd' = Max(readEnd, body.pos)
                       /\ tagReadEnd' = Max(tagReadEnd, body.pos)
                       /\ IF body.err # ""
                          THEN /\ pc' = "failed" /\ err' = body.err
                               /\ UNCHANGED <<tagged_length, blocks_dict>>
                          ELSE /\ pc' = "tagloop" /\ err' = err
                               /\ blocks_dict' = body.dict
                               /\ tagged_length' = tagged_length + BlockSize
    /\ UNCHANGED <<file, kwargs, printed, self, setup_length, tag_start, imgVars>>

\* the loop ends: "return blocks_dict"
TagReturn ==
    /\ pc = "tagloop"
    /\ ~ScanContinues
    /\ self' = self @@ ("TaggedBlocks" :> blocks_dict)
    /\ pc' = "images"
    /\ UNCHANGED <<file, kwargs, pos, err, printed, readEnd, shortRead, setup_length,
                   tagVars, imgVars>>

---------------------------------------------------------------------------
(* _get_Images *)

\* framelims after "if framelims == None: framelims = (0,nframes)"
DefaultLims(lims, nframes) == IF lims = None THEN <<0, nframes>> ELSE lims

\* Python's t[i] on a tuple of n elements is defined
PyIndexOk(i, n) == i < n /\ i >= -n
PyIndex(t, i) == IF i < 0 THEN t[i + Len(t) + 1] ELSE t[i + 1]

\* the image data is read, or skipped when read_images is false; up to the
\* seek to the first desired frame
StartImages ==
    /\ pc = "images"
    /\ IF ~kwargs.read_images
       THEN /\ pc' = "attrs"
            /\ UNCHANGED <<pos, err, readEnd, shortRead, imgVars>>
       ELSE LET nframes == self.CineFileHeader.ImageCount
                start_pos == self.CineFileHeader.OffImageOffsets
                got == Got(start_pos, nframes * 8)
                table == [i \in 1..nframes |-> LE(Read(start_pos + 8 * (i - 1), 8))]
                lims == DefaultLims(kwargs.framelimits, nframes)
            IN /\ readEnd' = Max(readEnd, start_pos + got)
               /\ shortRead' = (shortRead \/ got < nframes * 8)
               /\ UNCHANGED <<image_array, frame, frameReads>>
               /\ IF got < nframes * 8
                  THEN /\ pc' = "failed" /\ err' = "struct.error"
                       /\ pos' = start_pos + got
                       /\ UNCHANGED <<pointer_array, framelims>>
                  ELSE /\ pointer_array' = table
                       /\ framelims' = lims
                       /\ IF lims[2] - lims[1] < 0
                          THEN /\ pc' = "failed" /\ err' = "ValueError"
                               /\ pos' = start_pos + got
                          ELSE IF ~PyIndexOk(lims[1], nframes)
                          THEN /\ pc' = "failed" /\ err' = "IndexError"
                               /\ pos' = start_pos + got
                          ELSE /\ pc' = "frames" /\ err' = err
                               /\ pos' = PyIndex(table, lims[1])
    /\ UNCHANGED <<file, kwargs, printed, self, setup_length, tagVars>>

\* the pixel payload is unpacked as bytes
EightBit(biBitCount) == biBitCount = 8

\* where the loop reads frame number k (0-based) of the requested range:
\* the cursor, left by the previous record
FrameAt(p, k) == p

\* one iteration of "for frame in range(nframes)" with the cursor at p
DecodeFrame(p) ==
    LET g1 == Got(p, 4)
        AnnotationSize == LE(Read(p, 4))
        string_size == AnnotationSize - 8
        g2 == Got(p + 4, AnnotationSize - 4)
        ann == Read(p + 4, AnnotationSize - 4)
        ImageSize == LE(SubSeq(ann, string_size + 1, string_size + 4))
        q == p + 4 + g2
        g3 == Got(q, ImageSize)
        raw == Read(q, ImageSize)
        eight == EightBit(self.BitmapInfoHeader.biBitCount)
        want == IF eight THEN ImageSize ELSE 2 * (ImageSize \div 2)
        image_bits == IF eight THEN raw ELSE Unpack16(raw)
        nx == self.Setup.ImWidth
        ny == self.Setup.ImHeight
    IN IF g1 < 4
       THEN [err |-> "struct.error", pos |-> p + g1, short |-> TRUE, bits |-> <<>>]
       ELSE IF string_size < 0 \/ g2 # string_size + 4
       THEN [err |-> "struct.error", pos |-> q,
             short |-> (AnnotationSize - 4 >= 0 /\ g2 < AnnotationSize - 4),
             bits |-> <<>>]
       ELSE IF g3 # want
       THEN [err |-> "struct.error", pos |-> q + g3, short |-> (g3 < ImageSize),
             bits |-> <<>>]
       ELSE IF Len(image_bits) # nx * ny
       THEN [err |-> "ValueError", pos |-> q + g3, short |-> (g3 < ImageSize),
             bits |-> <<>>]
       ELSE [err |-> "", pos |-> q + g3, short |-> (g3 < ImageSize),
             bits |-> image_bits]

ReadFrame ==
    /\ pc = "frames"
    /\ frame < framelims[2] - framelims[1]
    /\ LET r == DecodeFrame(FrameAt(pos, frame))
       IN /\ pos' = r.pos
          /\ readEnd' = Max(readEnd, r.pos)
          /\ shortRead' = (shortRead \/ r.short)
          /\ frameReads' = frameReads + (r.pos - FrameAt(pos, frame))
          /\ IF r.err # ""
             THEN /\ pc' = "failed" /\ err' = r.err
                  /\ UNCHANGED <<frame, image_array>>
             ELSE /\ pc' = "frames" /\ err' = err
                  /\ image_array' = Append(image_array, r.bits)
                  /\ frame' = frame + 1
    /\ UNCHANGED <<file, kwargs, printed, self, setup_length, tagVars,
                   pointer_array, framelims>>

\* the loop ends: "return image_array"
ImagesReturn ==
    /\ pc = "frames"
    /\ frame >= framelims[2] - framelims[1]
    /\ self' = self @@ ("images" :> image_array)
    /\ pc' = "attrs"
    /\ UNCHANGED <<file, kwargs, pos, err, printed, readEnd, shortRead, setup_length,
                   tagVars, imgVars>>

---------------------------------------------------------------------------
(* _read_cine: the named attributes, and the return to the caller *)

Return ==
    /\ pc = "attrs"
    /\ self' = IF kwargs.no_attributes THEN self
               ELSE self.TaggedBlocks @@ self.Setup @@ self.BitmapInfoHeader
                        @@ self.CineFileHeader @@ self
    /\ pc' = "done"
    /\ UNCHANGED <<file, kwargs, pos, err, printed, readEnd, shortRead, setup_length,
                   tagVars, imgVars>>

---------------------------------------------------------------------------

Next ==
    \/ Open
    \/ ReadHeaders
    \/ ReadSetup
    \/ StartTaggedBlocks
    \/ TagBlock
    \/ TagReturn
    \/ StartImages
    \/ ReadFrame
    \/ ImagesReturn
    \/ Return

Spec == Init /\ [][Next]_vars

---------------------------------------------------------------------------
(* Stages of the pass, as seen from a state *)

Header == self.CineFileHeader
HasAttr(a) == a \in DOMAIN self

\* the two fixed headers were decoded and the Setup stage has ended
SetupStageOver == HasAttr("BitmapInfoHeader") /\ pc \notin {"setup"}

\* _get_TaggedBlocks was called and has ended, by a return or an exception
TagStageOver ==
    /\ ~kwargs.no_tagged_blocks
    /\ HasAttr("Setup")
    /\ pc \in {"images", "frames", "attrs", "done", "failed"}

\* _get_Images was called and has ended, by a return or an exception
ImageStageOver ==
    /\ kwargs.read_images
    /\ HasAttr("TaggedBlocks")
    /\ pc \in {"attrs", "done", "failed"}

\* the range a decode is asked for: framelimits, [0, ImageCount) by default
AskedRange == DefaultLims(kwargs.framelimits, file.src.n)

---------------------------------------------------------------------------
(* C1 *)

\* C1: every tagged-block header met during the scan whose type code is not
\* 1002 or 1003 (the codes 1004, 1005, 1006 included) ends the decode with the
\* unsupported-block-type error at that block, the cursor still right after
\* its 8-byte header; the scan never goes past such a block.
C1_UnsupportedBlockIsFatal ==
    \A k \in 1..Len(tag_headers) :
        tag_headers[k][3] \notin {1002, 1003}
            => /\ pc = "failed"
               /\ err = UnknownBlockMsg
               /\ k = Len(tag_headers)
               /\ pos = tag_headers[k][1] + tag_header_size

---------------------------------------------------------------------------
(* C2 *)

\* the stream holds a well-formed record for every frame, of the declared
\* bit depth, wherever the records are stored
FramesWellFormed ==
    /\ file.src.cut = -1
    /\ file.src.extra = 0
    /\ <<file.src.bits, file.src.bpp>> \in {<<8, 1>>, <<16, 2>>}

\* C2: for every frame count N, every range [lo, hi) with 0 <= lo <= hi <= N
\* and every frame-offset table, image decoding yields exactly hi - lo frames,
\* and result frame k is the frame record at offset_table[lo + k].
C2_FrameRangeDecoded ==
    (FramesWellFormed /\ ImageStageOver)
        => LET lo == AskedRange[1]
               hi == AskedRange[2]
           IN /\ pc # "failed"
              /\ HasAttr("images")
              /\ Len(self.images) = hi - lo
              /\ \A k \in 0..(hi - lo - 1) :
                    /\ self.images[k + 1] = DecodeFrame(pointer_array[lo + k + 1]).bits
                    /\ self.images[k + 1] = FrameSamples(lo + k + 1)

---------------------------------------------------------------------------
(* C3 *)

\* C3: no read of the tagged-block scan ends beyond file position
\* OffImageOffsets, whatever the block headers declare.
C3_ScanStaysBelowTable ==
    HasAttr("CineFileHeader") => tagReadEnd <= Header.OffImageOffsets

---------------------------------------------------------------------------
(* C4 *)

\* C4: the tagged-block decode returns a block collection only if the declared
\* block sizes, summed from tag_start, land exactly on OffImageOffsets.
C4_MisfitIsAnError ==
    (TagStageOver /\ HasAttr("TaggedBlocks"))
        => tag_start + tagged_length = Header.OffImageOffsets

---------------------------------------------------------------------------
(* C5 *)

\* every tagged block of the stream is a complete TimeOnly or ExposureOnly
\* block with one entry per frame, and the blocks end where the table starts
TagsWellFormed ==
    /\ file.src.cut = -1
    /\ file.src.gap = 0
    /\ file.src.setup_length = 6904
    /\ file.src.blocks # <<>>
    /\ \A k \in 1..Len(file.src.blocks) :
          file.src.blocks[k] \in {TimeBlock(file.src.n), ExpBlock(file.src.n)}

HasBlock(b) == \E k \in 1..Len(file.src.blocks) : file.src.blocks[k] = b

\* C5: with or without a caller-supplied frame range (default [0, N)), a
\* stream holding TimeOnly or ExposureOnly blocks passes the tagged-block
\* stage, and TimeOnly, time_float, ExposureOnly and exposure_float hold the
\* entries of exactly the frames of the range, as many as the frame stack.
C5_RangeIsOptionalForBlocks ==
    (TagsWellFormed /\ TagStageOver)
        => LET lo == AskedRange[1]
               hi == AskedRange[2]
               blocks == self.TaggedBlocks
           IN /\ HasAttr("TaggedBlocks")
              /\ HasBlock(TimeBlock(file.src.n)) =>
                    /\ blocks.TimeOnly = [k \in 1..(hi - lo) |->
                          <<TimeEntry(lo + k).fraction, TimeEntry(lo + k).seconds>>]
                    /\ Len(blocks.time_float) = hi - lo
              /\ HasBlock(ExpBlock(file.src.n)) =>
                    /\ blocks.ExposureOnly = [k \in 1..(hi - lo) |-> ExpEntry(lo + k)]
                    /\ Len(blocks.exposure_float) = hi - lo
              /\ HasAttr("images") => Len(self.images) = hi - lo

---------------------------------------------------------------------------
(* C6 *)

\* C6: with biBitCount other than 8 or 16, image decoding fails before any
\* byte of a frame record is read: the frame loop is never entered.
C6_UnsupportedDepthIsFatal ==
    (HasAttr("BitmapInfoHeader") /\ kwargs.read_images
        /\ self.BitmapInfoHeader.biBitCount \notin {8, 16})
        => /\ frameReads = 0
           /\ pc \notin {"frames", "attrs", "done"}

---------------------------------------------------------------------------
(* C7 *)

\* C7: if the first two bytes are a two-character value other than 'CI',
\* construction fails with the format error, no byte beyond the first two is
\* read, and no stage of _read_cine runs.
C7_BadMagicRejected ==
    (file.len >= 2 /\ At(file.hdr, 0) # "CI")
        => /\ pc \in {"init", "failed"}
           /\ pc = "failed" => err = FormatErrorMsg
           /\ readEnd <= 2
           /\ DOMAIN self = {}
           /\ printed = {}

C7_Witness ==
    /\ pc = "failed"
    /\ err = FormatErrorMsg
    /\ At(file.hdr, 0) = "MZ"
    /\ readEnd = 2
    /\ pos = 0

---------------------------------------------------------------------------
(* C8 *)

\* the declared Setup length differs from what the fixed layout needs
LengthMismatch == setup_read_length(file.setup_length) # setup_format_size

\* number of bytes the stream yields to the read of the Setup structure
SetupBytesRead ==
    Got(header_length + bitmapinfo_length + deprecated_skip + setup_initial_skip,
        setup_read_length(file.setup_length))

\* the Setup mark and the declared length could be read
SetupHeadPresent ==
    file.len >= header_length + bitmapinfo_length + deprecated_skip + 4

---------------------------------------------------------------------------
(* C9 *)

\* C9: the Setup record exposes the Description field with its trailing NUL
\* bytes removed.
C9_DescriptionExposed ==
    HasAttr("Setup")
        => /\ "Description" \in DOMAIN self.Setup
           /\ self.Setup.Description = RStripNul(file.description, description_size)

---------------------------------------------------------------------------
(* C10 *)

\* C10: a read that returns fewer bytes than requested ends the decode at
\* that read; no container is returned after one.
C10_ShortReadIsFatal == shortRead => pc = "failed"

---------------------------------------------------------------------------
(* C11 *)

\* C11: at the start of every iteration of the tagged-block scan the cursor
\* is at tag_start + tagged_length: for every block the scan accepts, of any
\* type code and any declared size, the bytes consumed equal the BlockSize
\* added to the accumulator, so the next 8 bytes read are the next header.
C11_CursorTracksAccumulator ==
    pc = "tagloop" => pos = tag_start + tagged_length

===========================================================================
